---- MODULE Spec2Model ----
(***************************************************************************)
(* Model of the chat session hook useChat (src/src/hooks/useChat.ts): the  *)
(* React state of one mounted hook, the browser localStorage it mirrors    *)
(* into, and the transport requests (send / reset / create session) that   *)
(* are in flight between an await and its continuation.                    *)
(*                                                                         *)
(* Every action is one synchronous run of a handler or of a continuation   *)
(* after an await, followed by the render it causes and the effects of     *)
(* that render (the restore/create effect and the save effect).            *)
(*                                                                         *)
(* Text is a sequence of tokens, " " being a whitespace token; the empty   *)
(* string is <<>>.  null is Null for error/lastDebug and NoSid for a       *)
(* session id.  A message is a record whose optional keys (isLoading,      *)
(* debug) are absent from its domain until the code sets them.             *)
(*                                                                         *)
(* The chat page that renders ChatContainer (ChatPageContent, its source   *)
(* is in src/README.md) is the variable page; SpecPage runs its context    *)
(* initialization.  SpecHelpers runs the two persistence helpers alone.    *)
(***************************************************************************)
EXTENDS Integers, Sequences, FiniteSets, TLC

VARIABLES cfg, messages, isLoading, error, lastDebug, sessionId,
          isInitializing, hasRestoredMessages, localStorage,
          sends, resets, newChats, initCreate, nextSid, now,
          last, discarded, calls, page, handshake

\* cfg: the props of the mounted hook.  messages .. hasRestoredMessages: the
\* hook's state and ref.  sends, resets, newChats, initCreate: the requests
\* awaited by sendUserMessage, resetSession, startNewChat and the mount
\* effect.  nextSid: the next session id the backend issues.  now: Date.now().
\* last (the last operation and its outcome), discarded (the session ids
\* startNewChat was invoked on since the mount) and calls (the number of calls
\* made so far) record history only; no operation reads last or discarded.
\* page: the state of ChatPageContent (its useState values, the URL it was
\* opened with, and the await its initializeContext is at).
\* handshake: one call of requestGHLUserData (its promise, its message
\* listener and its timer), with the time elapsed and the messages delivered
\* since the call.
vars == <<cfg, messages, isLoading, error, lastDebug, sessionId,
          isInitializing, hasRestoredMessages, localStorage,
          sends, resets, newChats, initCreate, nextSid, now,
          last, discarded, calls, page, handshake>>

\* ---------------------------------------------------------------- bounds
MaxEvents == 3
MaxElapsed == 6
MaxMsgs == 4
MaxInflight == 2
MaxResets == 1
MaxNewChats == 1
MaxSessions == 2
MaxClock == 2
MaxCalls == 3

\* ------------------------------------------------------------ constants
Null == "null"
NoSid == 0
NoText == <<>>
STORAGE_KEY_PREFIX == "north_peak_chat_"
STORAGE_SESSION_KEY == "north_peak_current_session"
FallbackReply == <<"I understand. Let me help you with that.">>
ApologyText == <<"Sorry, I encountered an error. Please try again.">>
ErrNotInitialized == "Test session not initialized"
ErrContactRequired == "Contact ID required for non-test mode"
ErrSomethingWrong == "Something went wrong"
ErrResetFailed == "Failed to reset session"
ErrNewChatFailed == "Failed to start new chat"

\* ---------------------------------------------------------------- inputs
\* the props of one mounted hook; ChatContainer, the only caller, passes no
\* sessionId, so initialSessionId is always absent
Configs ==
    { [testMode |-> TRUE,  locationId |-> "L1", contactId |-> "", initialSessionId |-> NoSid],
      [testMode |-> TRUE,  locationId |-> "",   contactId |-> "", initialSessionId |-> NoSid],
      [testMode |-> FALSE, locationId |-> "L1", contactId |-> "c1", initialSessionId |-> NoSid],
      [testMode |-> FALSE, locationId |-> "L1", contactId |-> "", initialSessionId |-> NoSid] }

\* what the user types
Texts == { <<>>, <<" ">>, <<" ", "hi">> }

\* what the transport answers
Responses ==
    { [replyIsNull |-> TRUE,  reply |-> NoText,       debug |-> "d1"],
      [replyIsNull |-> FALSE, reply |-> NoText,       debug |-> "d1"],
      [replyIsNull |-> FALSE, reply |-> <<"Hello!">>, debug |-> "d2"] }

\* what the transport throws: an Error with a message, or some other value
Thrown == { [isError |-> TRUE, message |-> "timeout"],
            [isError |-> FALSE, message |-> "undefined"] }

\* ------------------------------------------------------- pure functions
RECURSIVE TrimStart(_)
TrimStart(s) == IF s # <<>> /\ Head(s) = " " THEN TrimStart(Tail(s)) ELSE s

RECURSIVE TrimEnd(_)
TrimEnd(s) == IF s # <<>> /\ s[Len(s)] = " "
              THEN TrimEnd(SubSeq(s, 1, Len(s) - 1)) ELSE s

\* String.prototype.trim
TrimOmitted(s) == s

Trim(s) == TrimEnd(TrimStart(s))

\* Date.prototype.toISOString and new Date(isoString), millisecond precision
ToISOString(t) == <<"iso", t>>

\* a Date that holds no time value (NaN)
InvalidDate == -1

\* the value read from a property that is not there
Undefined == <<"undefined", 0>>

\* new Date(v): the time an ISO string denotes, Invalid Date for anything else
NewDate(v) == IF v[1] = "iso" THEN v[2] ELSE InvalidDate

\* A JSON text is modelled by what JSON.parse makes of it: a SyntaxError
\* ("unparseable"), a value that is not an array ("notArray"), or an array of
\* elements. An element is an object (a record) or one of the two values
\* below.
JSONstringify(array) == [kind |-> "array", items |-> array]
Unparseable == [kind |-> "unparseable", items |-> <<>>]
NotAnArray == [kind |-> "notArray", items |-> <<>>]
JsonNull == [json |-> "null"]
JsonNumber == [json |-> "number"]

IsJsonNull(m) == "json" \in DOMAIN m /\ m.json = "null"

serializeMessages(msgs) ==
    JSONstringify([i \in 1..Len(msgs) |->
                      ("timestamp" :> ToISOString(msgs[i].timestamp)) @@ msgs[i]])

\* the mapping of one parsed element: {...m, timestamp: new Date(m.timestamp)};
\* spreading a number gives no properties
DeserializeEntry(m) ==
    IF "json" \in DOMAIN m
    THEN [timestamp |-> NewDate(Undefined)]
    ELSE ("timestamp" :> NewDate(IF "timestamp" \in DOMAIN m
                                 THEN m.timestamp ELSE Undefined)) @@ m

\* the catch branch is taken when JSON.parse throws, when the parsed value
\* has no map method, and when an element is null (reading m.timestamp throws)
deserializeMessages(json) ==
    IF json.kind # "array" THEN <<>>
    ELSE IF \E i \in 1..Len(json.items) : IsJsonNull(json.items[i]) THEN <<>>
    ELSE [i \in 1..Len(json.items) |-> DeserializeEntry(json.items[i])]

\* localStorage: a function from the keys present to their values
SessionKey(loc) == <<STORAGE_SESSION_KEY, loc>>
ChatKey(sid) == <<STORAGE_KEY_PREFIX, sid>>
HasItem(ls, k) == k \in DOMAIN ls
setItemDropped(ls, k, v) == ls
setItem(ls, k, v) == (k :> v) @@ ls
removeItemKeeping(ls, k) == ls
removeItem(ls, k) == [x \in DOMAIN ls \ {k} |-> ls[x]]

IsLoadingMsg(m) == "isLoading" \in DOMAIN m /\ m.isLoading
Remove(s, i) == [k \in 1..(Len(s) - 1) |-> IF k < i THEN s[k] ELSE s[k + 1]]

\* ------------------------------------------------------- SSO handshake
\* requestGHLUserData: a promise settled by the first
\* REQUEST_USER_DATA_RESPONSE message or by a timer.
TIMEOUT_SECONDS == 5
ErrSSOTimeout == "GHL user data request timed out"

\* before requestGHLUserData is called
NoHandshake ==
    [promise |-> "none", value |-> "none", listener |-> FALSE, timer |-> FALSE,
     elapsed |-> 0, events |-> <<>>, timerFired |-> FALSE, eventsAtTimer |-> 0]

\* the messages the window may receive: event.data.message and
\* event.data.payload
MessageEvents ==
    { [message |-> "REQUEST_USER_DATA_RESPONSE", payload |-> "p1"],
      [message |-> "REQUEST_USER_DATA_RESPONSE", payload |-> "p2"],
      [message |-> "other", payload |-> "p3"] }

\* resolve(v) / reject(e) of a promise: the first call settles it, later
\* calls do nothing
Settle(h, how, v) ==
    IF h.promise = "pending" THEN [h EXCEPT !.promise = how, !.value = v] ELSE h

messageHandlerOfAnyMessage(h, event) ==
    Settle([h EXCEPT !.timer = FALSE, !.listener = FALSE], "resolved", event.payload)

messageHandler(h, event) ==
    IF event.message = "REQUEST_USER_DATA_RESPONSE"
    THEN Settle([h EXCEPT !.timer = FALSE, !.listener = FALSE],
                "resolved", event.payload)
    ELSE h

\* the setTimeout callback
timeoutCallback(h) ==
    Settle([h EXCEPT !.listener = FALSE, !.timer = FALSE],
           "rejected", ErrSSOTimeout)

UNCHANGED_ExceptHandshake ==
    UNCHANGED <<cfg, messages, isLoading, error, lastDebug, sessionId,
                isInitializing, hasRestoredMessages, localStorage,
                sends, resets, newChats, initCreate, nextSid, now,
                last, discarded, calls, page>>

\* the promise executor: setTimeout, addEventListener, postMessage
requestGHLUserData ==
    /\ handshake.promise = "none"
    /\ handshake' = [handshake EXCEPT !.promise = "pending",
                                      !.timer = TRUE, !.listener = TRUE]
    /\ UNCHANGED_ExceptHandshake

\* a message event reaches the window; the handler runs if it is registered
MessageArrives(event) ==
    /\ handshake.promise # "none"
    /\ Len(handshake.events) < MaxEvents
    /\ handshake' =
         [(IF handshake.listener THEN messageHandler(handshake, event)
           ELSE handshake)
          EXCEPT !.events = Append(handshake.events, event)]
    /\ UNCHANGED_ExceptHandshake

\* a second passes; an armed timer that is due fires before more time passes
SecondPasses ==
    /\ handshake.promise # "none"
    /\ handshake.elapsed < MaxElapsed
    /\ ~(handshake.timer /\ handshake.elapsed >= TIMEOUT_SECONDS)
    /\ handshake' = [handshake EXCEPT !.elapsed = @ + 1]
    /\ UNCHANGED_ExceptHandshake

TimerFires ==
    /\ handshake.timer
    /\ handshake.elapsed >= TIMEOUT_SECONDS
    /\ handshake' = [timeoutCallback(handshake) EXCEPT
                        !.timerFired = TRUE,
                        !.eventsAtTimer = Len(handshake.events)]
    /\ UNCHANGED_ExceptHandshake

\* ------------------------------------------------------------ chat page
DEMO_LOCATION_ID == "22222222-2222-2222-2222-222222222222"

\* null for the context state and for the user data not yet received
NoContext == [isNull |-> TRUE]
NoUser == [isNull |-> TRUE]

\* the query string the page is opened with; "" is a parameter not given
SearchParams ==
    [location_id : {"", "L1"}, contact_id : {"", "c1"},
     ghl_location_id : {"", "g1"}, ghl_contact_id : {"", "gc1"},
     locationId : {"", "g2"}, contactId : {"", "gc2"}]

\* a || b on strings
OrElse(a, b) == IF a # "" THEN a ELSE b

\* what resolveIds settles with: a rejection, or a response whose location
\* and contact may each be missing
ResolveOutcomes ==
    [throws : BOOLEAN, location : {"", "L2"}, contact : {"", "c2"}]

\* what authenticateWithGHL settles with: a rejection (timeout, decryption
\* failure), or the user data, with or without an active location
SSOOutcomes ==
    [rejects : BOOLEAN, activeLocation : {"", "g3"}, userName : {"", "Ann"}]

\* useState(null), useState(null), useState(true), useState("initializing")
MountedPage(params, inIframe) ==
    [params |-> params, inIframe |-> inIframe, context |-> NoContext,
     error |-> Null, isLoading |-> TRUE, authStatus |-> "initializing",
     userData |-> NoUser, pc |-> "effect"]

DemoContext ==
    [locationId |-> DEMO_LOCATION_ID, locationName |-> "Demo Location",
     contactName |-> "Demo User", testMode |-> TRUE]

\* PRIORITY 4: Demo/Test mode (no auth)
DemoModeStillLoading(pg) ==
    [pg EXCEPT !.authStatus = "test mode", !.context = DemoContext, !.pc = "done"]

DemoMode(pg) ==
    [pg EXCEPT !.authStatus = "test mode", !.context = DemoContext,
               !.isLoading = FALSE, !.pc = "done"]

\* setError(...); setIsLoading(false); return
PageError(pg, text) ==
    [pg EXCEPT !.error = text, !.isLoading = FALSE, !.pc = "done"]

\* `Contact not found for GHL ID: ${ghlContactId}`
ContactNotFound(id) ==
    IF id = "gc1" THEN "Contact not found for GHL ID: gc1"
    ELSE IF id = "gc2" THEN "Contact not found for GHL ID: gc2"
    ELSE "Contact not found for GHL ID: null"

\* `Location not found for GHL ID: ${ghlLocationId}`
LocationNotFound(id) ==
    IF id = "g1" THEN "Location not found for GHL ID: g1"
    ELSE IF id = "g2" THEN "Location not found for GHL ID: g2"
    ELSE "Location not found for GHL ID: null"

ErrSSONoLocation == "SSO succeeded but no active location found"

GhlLocationId(params) == OrElse(params.ghl_location_id, params.locationId)
GhlContactId(params) == OrElse(params.ghl_contact_id, params.contactId)

\* the hook state is not touched by the page
UNCHANGED_Hook ==
    UNCHANGED <<cfg, messages, isLoading, error, lastDebug, sessionId,
                isInitializing, hasRestoredMessages, localStorage,
                sends, resets, newChats, initCreate, nextSid, now,
                last, discarded, calls, handshake>>

\* the effect runs initializeContext up to its first await or its return
initializeContext ==
    /\ page.pc = "effect"
    /\ LET params == page.params
       IN page' =
            IF params.location_id # "" /\ params.contact_id # ""
            THEN [page EXCEPT
                     !.authStatus = "using URL params (UUIDs)",
                     !.context = [locationId |-> params.location_id,
                                  contactId |-> params.contact_id],
                     !.isLoading = FALSE,
                     !.pc = "done"]
            ELSE IF GhlLocationId(params) # "" \/ GhlContactId(params) # ""
            THEN [page EXCEPT !.authStatus = "resolving GHL IDs from URL",
                              !.pc = "resolveIds"]
            ELSE IF page.inIframe
            THEN [page EXCEPT !.authStatus = "authenticating via GHL SSO",
                              !.pc = "authenticateWithGHL"]
            ELSE DemoMode(page)
    /\ UNCHANGED_Hook

\* PRIORITY 2: await resolveIds({ghl_location_id, ghl_contact_id}) settles
ResolveSettled(res) ==
    /\ page.pc = "resolveIds"
    /\ page' =
         IF res.throws THEN PageError(page, "lookup failed")
         ELSE IF res.location # "" /\ res.contact # ""
         THEN [page EXCEPT
                  !.context = [locationId |-> res.location,
                               contactId |-> res.contact,
                               locationName |-> "name", contactName |-> "name"],
                  !.isLoading = FALSE,
                  !.pc = "done"]
         ELSE IF res.location # ""
         THEN PageError(page, ContactNotFound(GhlContactId(page.params)))
         ELSE PageError(page, LocationNotFound(GhlLocationId(page.params)))
    /\ UNCHANGED_Hook

\* PRIORITY 3: await authenticateWithGHL() settles
SSOSettled(out) ==
    /\ page.pc = "authenticateWithGHL"
    /\ page' =
         IF out.rejects
         THEN DemoMode([page EXCEPT !.authStatus = "SSO failed, using demo mode"])
         ELSE IF out.activeLocation # ""
         THEN [page EXCEPT !.userData = [activeLocation |-> out.activeLocation,
                                         userName |-> out.userName],
                           !.pc = "resolveActiveLocation"]
         ELSE PageError(page, ErrSSONoLocation)
    /\ UNCHANGED_Hook

\* PRIORITY 3: await resolveIds({ghl_location_id: userData.activeLocation})
\* settles, inside the same try as the SSO call
SSOResolveSettled(res) ==
    /\ page.pc = "resolveActiveLocation"
    /\ page' =
         IF res.throws
         THEN DemoMode([page EXCEPT !.authStatus = "SSO failed, using demo mode"])
         ELSE IF res.location # ""
         THEN [page EXCEPT
                  !.context = [locationId |-> res.location,
                               locationName |-> "name",
                               contactName |-> OrElse(page.userData.userName, "email"),
                               testMode |-> TRUE],
                  !.authStatus = "authenticated (test mode)",
                  !.isLoading = FALSE,
                  !.pc = "done"]
         ELSE PageError(page, ErrSSONoLocation)
    /\ UNCHANGED_Hook

\* the page as it is while ChatContainer, and the hook in it, is on screen
SettledDemoPage ==
    DemoMode(MountedPage([location_id |-> "", contact_id |-> "",
                          ghl_location_id |-> "", ghl_contact_id |-> "",
                          locationId |-> "", contactId |-> ""], FALSE))

\* ---------------------------------------------------- render and effects
Cur == [messages |-> messages, isLoading |-> isLoading, error |-> error,
        lastDebug |-> lastDebug, sessionId |-> sessionId,
        isInitializing |-> isInitializing,
        hasRestoredMessages |-> hasRestoredMessages,
        localStorage |-> localStorage, initCreate |-> initCreate]

\* the restore-or-create effect
InitEffectEnabledWithoutRef(st) ==
    /\ cfg.testMode
    /\ st.sessionId = NoSid
    /\ ~st.isInitializing
    /\ cfg.locationId # ""

InitEffectEnabled(st) ==
    /\ cfg.testMode
    /\ st.sessionId = NoSid
    /\ ~st.isInitializing
    /\ cfg.locationId # ""
    /\ ~st.hasRestoredMessages

InitEffectAlwaysCreating(st) ==
    IF ~InitEffectEnabled(st) THEN st
    ELSE [st EXCEPT !.hasRestoredMessages = TRUE,
                    !.isInitializing = TRUE,
                    !.initCreate = TRUE]

InitEffect(st) ==
    IF ~InitEffectEnabled(st) THEN st
    ELSE IF HasItem(st.localStorage, SessionKey(cfg.locationId))
    THEN LET savedSessionId == st.localStorage[SessionKey(cfg.locationId)]
             hasBlob == HasItem(st.localStorage, ChatKey(savedSessionId))
             restored == IF hasBlob
                         THEN deserializeMessages(st.localStorage[ChatKey(savedSessionId)])
                         ELSE <<>>
         IN [st EXCEPT !.hasRestoredMessages = TRUE,
                       !.sessionId = savedSessionId,
                       !.messages = IF Len(restored) > 0 THEN restored ELSE @]
    ELSE [st EXCEPT !.hasRestoredMessages = TRUE,
                    !.isInitializing = TRUE,
                    !.initCreate = TRUE]

SaveEffectOfEmptyListToo(st, changed) ==
    IF changed /\ st.sessionId # NoSid
    THEN [st EXCEPT !.localStorage =
              setItem(@, ChatKey(st.sessionId), serializeMessages(st.messages))]
    ELSE st

\* the save effect; changed: sessionId or messages differ from the last render
SaveEffect(st, changed) ==
    IF changed /\ st.sessionId # NoSid /\ Len(st.messages) > 0
    THEN [st EXCEPT !.localStorage =
              setItem(@, ChatKey(st.sessionId), serializeMessages(st.messages))]
    ELSE st

\* the render after a handler left the state st, and the effects of that
\* render; setMsgs: the handler called setMessages
Commit(pre, st, setMsgs) ==
    IF InitEffectEnabled(st)
    THEN SaveEffect(InitEffect(st), TRUE)
    ELSE SaveEffect(st, setMsgs \/ st.sessionId # pre.sessionId)

Apply(st) ==
    /\ messages' = st.messages
    /\ isLoading' = st.isLoading
    /\ error' = st.error
    /\ lastDebug' = st.lastDebug
    /\ sessionId' = st.sessionId
    /\ isInitializing' = st.isInitializing
    /\ hasRestoredMessages' = st.hasRestoredMessages
    /\ localStorage' = st.localStorage
    /\ initCreate' = st.initCreate

\* the state of a freshly mounted hook over the storage ls
Mounted(ls) ==
    [messages |-> <<>>, isLoading |-> FALSE, error |-> Null,
     lastDebug |-> Null, sessionId |-> cfg.initialSessionId,
     isInitializing |-> FALSE, hasRestoredMessages |-> FALSE,
     localStorage |-> ls, initCreate |-> FALSE]

EmptyStorage == [k \in {} |-> 0]

Init ==
    /\ cfg \in Configs
    /\ LET st == Commit(Mounted(EmptyStorage), Mounted(EmptyStorage), TRUE)
       IN /\ messages = st.messages
          /\ isLoading = st.isLoading
          /\ error = st.error
          /\ lastDebug = st.lastDebug
          /\ sessionId = st.sessionId
          /\ isInitializing = st.isInitializing
          /\ hasRestoredMessages = st.hasRestoredMessages
          /\ localStorage = st.localStorage
          /\ initCreate = st.initCreate
    /\ sends = <<>>
    /\ resets = <<>>
    /\ newChats = <<>>
    /\ nextSid = 1
    /\ now = 1
    /\ last = [op |-> "mount", out |-> "none"]
    /\ discarded = {}
    /\ calls = 0
    /\ page = SettledDemoPage
    /\ handshake = NoHandshake

\* ------------------------------------------------------------ operations
UserMessage(content, t) ==
    [id |-> <<"user", t>>, role |-> "user", content |-> Trim(content), timestamp |-> t]

LoadingMessageFromUser(t) ==
    [id |-> <<"assistant", t>>, role |-> "user", content |-> NoText,
     timestamp |-> t, isLoading |-> TRUE]

LoadingMessage(t) ==
    [id |-> <<"assistant", t>>, role |-> "assistant", content |-> NoText,
     timestamp |-> t, isLoading |-> TRUE]

\* response.reply || "I understand. Let me help you with that."
ReplyOrFallback(resp) ==
    IF resp.replyIsNull \/ resp.reply = NoText THEN FallbackReply ELSE resp.reply

\* err instanceof Error ? err.message : fallback
ErrorMessageAlwaysFallback(thrown, fallback) == fallback

ErrorMessageDropped(thrown, fallback) == Null

ErrorMessageGeneric(thrown, fallback) == ErrSomethingWrong

ErrorMessage(thrown, fallback) == IF thrown.isError THEN thrown.message ELSE fallback

\* `Failed to create test session: ${err.message}`
InitErrorMessage(thrown) ==
    IF thrown.isError /\ thrown.message = "timeout"
    THEN "Failed to create test session: timeout"
    ELSE "Failed to create test session: undefined"

\* prev.map(msg => msg.id === id ? {...msg, ...patch} : msg)
ReplaceLoadingAppending(prev, id, patch) ==
    Append(prev, patch @@ [id |-> id, role |-> "assistant", timestamp |-> 0])

ReplaceLoading(prev, id, patch) ==
    [k \in 1..Len(prev) |-> IF prev[k].id = id THEN patch @@ prev[k] ELSE prev[k]]

\* a validation failure of sendUserMessage: setError(message); return
ValidationErrorLoading(st, message) == [st EXCEPT !.error = message, !.isLoading = TRUE]

ValidationError(st, message) == [st EXCEPT !.error = message]

\* the part of sendUserMessage that runs before its await
sendUserMessage(content) ==
    IF Trim(content) = NoText \/ cfg.locationId = ""
    THEN /\ last' = [op |-> "send", out |-> "noop"]
         /\ UNCHANGED <<cfg, messages, isLoading, error, lastDebug, sessionId,
                        isInitializing, hasRestoredMessages, localStorage,
                        sends, resets, newChats, initCreate, nextSid, now, discarded>>
    ELSE IF cfg.testMode /\ sessionId = NoSid
    THEN /\ Apply(Commit(Cur, ValidationError(Cur, ErrNotInitialized), FALSE))
         /\ last' = [op |-> "send", out |-> "rejected"]
         /\ UNCHANGED <<cfg, sends, resets, newChats, nextSid, now, discarded>>
    ELSE IF ~cfg.testMode /\ cfg.contactId = ""
    THEN /\ Apply(Commit(Cur, ValidationError(Cur, ErrContactRequired), FALSE))
         /\ last' = [op |-> "send", out |-> "rejected"]
         /\ UNCHANGED <<cfg, sends, resets, newChats, nextSid, now, discarded>>
    ELSE /\ Len(messages) + 2 <= MaxMsgs
         /\ Len(sends) < MaxInflight
         /\ LET userMessage == UserMessage(content, now)
                loadingMessage == LoadingMessage(now)
                st == [Cur EXCEPT !.error = Null,
                                  !.isLoading = TRUE,
                                  !.messages = @ \o <<userMessage, loadingMessage>>]
            IN /\ Apply(Commit(Cur, st, TRUE))
               /\ sends' = Append(sends,
                      [id |-> loadingMessage.id,
                       test |-> cfg.testMode /\ sessionId # NoSid,
                       sessionId |-> sessionId,
                       contactId |-> cfg.contactId,
                       message |-> content])
         /\ last' = [op |-> "send", out |-> "accepted"]
         /\ UNCHANGED <<cfg, resets, newChats, nextSid, now, discarded>>

\* the transport answers the i-th request in flight: the rest of the try
\* block and the finally block
SendSucceeded(i, resp) ==
    /\ i \in DOMAIN sends
    /\ LET req == sends[i]
           st == IF req.test
                 THEN [Cur EXCEPT
                         !.lastDebug = resp.debug,
                         !.messages = ReplaceLoading(@, req.id,
                             [content |-> ReplyOrFallback(resp),
                              isLoading |-> FALSE,
                              debug |-> resp.debug]),
                         !.isLoading = FALSE]
                 ELSE [Cur EXCEPT
                         !.messages = ReplaceLoading(@, req.id,
                             [content |-> ReplyOrFallback(resp),
                              isLoading |-> FALSE]),
                         !.isLoading = FALSE]
       IN Apply(Commit(Cur, st, TRUE))
    /\ sends' = Remove(sends, i)
    /\ last' = [op |-> "send", out |-> "succeeded"]
    /\ UNCHANGED <<cfg, resets, newChats, nextSid, now, discarded>>

\* the transport rejects the i-th request in flight: the catch block and
\* the finally block
SendFailed(i, thrown) ==
    /\ i \in DOMAIN sends
    /\ LET req == sends[i]
           st == [Cur EXCEPT
                    !.error = ErrorMessage(thrown, ErrSomethingWrong),
                    !.messages = ReplaceLoading(@, req.id,
                        [content |-> ApologyText, isLoading |-> FALSE]),
                    !.isLoading = FALSE]
       IN Apply(Commit(Cur, st, TRUE))
    /\ sends' = Remove(sends, i)
    /\ last' = [op |-> "send", out |-> "failed"]
    /\ UNCHANGED <<cfg, resets, newChats, nextSid, now, discarded>>

clearMessages ==
    /\ Apply(Commit(Cur, [Cur EXCEPT !.messages = <<>>,
                                     !.error = Null,
                                     !.lastDebug = Null], TRUE))
    /\ last' = [op |-> "clear", out |-> "done"]
    /\ UNCHANGED <<cfg, sends, resets, newChats, nextSid, now, discarded>>

\* the part of resetSession that runs before its await
resetSession ==
    IF ~cfg.testMode \/ sessionId = NoSid
    THEN /\ last' = [op |-> "reset", out |-> "noop"]
         /\ UNCHANGED <<cfg, messages, isLoading, error, lastDebug, sessionId,
                        isInitializing, hasRestoredMessages, localStorage,
                        sends, resets, newChats, initCreate, nextSid, now, discarded>>
    ELSE /\ Len(resets) < MaxResets
         /\ resets' = Append(resets, sessionId)
         /\ last' = [op |-> "reset", out |-> "requested"]
         /\ UNCHANGED <<cfg, messages, isLoading, error, lastDebug, sessionId,
                        isInitializing, hasRestoredMessages, localStorage,
                        sends, newChats, initCreate, nextSid, now, discarded>>

ResetSucceeded(i) ==
    /\ i \in DOMAIN resets
    /\ LET st == [Cur EXCEPT !.messages = <<>>,
                             !.error = Null,
                             !.lastDebug = Null,
                             !.localStorage = removeItem(@, ChatKey(resets[i]))]
       IN Apply(Commit(Cur, st, TRUE))
    /\ resets' = Remove(resets, i)
    /\ last' = [op |-> "reset", out |-> "succeeded"]
    /\ UNCHANGED <<cfg, sends, newChats, nextSid, now, discarded>>

ResetFailed(i, thrown) ==
    /\ i \in DOMAIN resets
    /\ Apply(Commit(Cur, [Cur EXCEPT !.error = ErrorMessage(thrown, ErrResetFailed)], FALSE))
    /\ resets' = Remove(resets, i)
    /\ last' = [op |-> "reset", out |-> "failed"]
    /\ UNCHANGED <<cfg, sends, newChats, nextSid, now, discarded>>

\* "Clear current state" of startNewChat
ClearedForNewChat(st) ==
    [st EXCEPT !.messages = <<>>, !.lastDebug = Null, !.sessionId = NoSid]

\* the part of startNewChat that runs before its first await
startNewChat ==
    IF ~cfg.testMode \/ cfg.locationId = ""
    THEN /\ last' = [op |-> "newChat", out |-> "noop"]
         /\ UNCHANGED <<cfg, messages, isLoading, error, lastDebug, sessionId,
                        isInitializing, hasRestoredMessages, localStorage,
                        sends, resets, newChats, initCreate, nextSid, now, discarded>>
    ELSE /\ Len(newChats) < MaxNewChats
         /\ LET st == [Cur EXCEPT !.isLoading = TRUE, !.error = Null]
            IN IF sessionId # NoSid
               THEN /\ Apply(Commit(Cur,
                          [st EXCEPT !.localStorage = removeItem(@, ChatKey(sessionId))],
                          FALSE))
                    /\ newChats' = Append(newChats,
                          [phase |-> "reset", sessionId |-> sessionId,
                           cleanupFailed |-> FALSE])
                    /\ discarded' = discarded \cup {sessionId}
               ELSE /\ Apply(Commit(Cur, ClearedForNewChat(st), TRUE))
                    /\ newChats' = Append(newChats,
                          [phase |-> "create", sessionId |-> NoSid,
                           cleanupFailed |-> FALSE])
                    /\ discarded' = discarded
         /\ last' = [op |-> "newChat", out |-> "started"]
         /\ UNCHANGED <<cfg, sends, resets, nextSid, now>>

\* the inner try/catch around resetTestSession and the clearing after it:
\* a failure (ok = FALSE) is ignored
AfterCleanupSurfacing(st, ok) ==
    IF ok THEN ClearedForNewChat(st)
    ELSE [ClearedForNewChat(st) EXCEPT !.error = ErrNewChatFailed]

AfterCleanup(st, ok) == ClearedForNewChat(st)

\* resetTestSession of the old session settles, either way: state is
\* cleared and createTestSession is requested
NewChatCleanupSettled(i, ok) ==
    /\ i \in DOMAIN newChats
    /\ newChats[i].phase = "reset"
    /\ Apply(Commit(Cur, AfterCleanup(Cur, ok), TRUE))
    /\ newChats' = [newChats EXCEPT ![i].phase = "create",
                                    ![i].cleanupFailed = ~ok]
    /\ last' = [op |-> "newChat", out |-> IF ok THEN "cleaned" ELSE "cleanupFailed"]
    /\ UNCHANGED <<cfg, sends, resets, nextSid, now, discarded>>

NewChatCreated(i) ==
    /\ i \in DOMAIN newChats
    /\ newChats[i].phase = "create"
    /\ nextSid <= MaxSessions
    /\ LET st == [Cur EXCEPT
                    !.sessionId = nextSid,
                    !.localStorage = setItem(@, SessionKey(cfg.locationId), nextSid),
                    !.isLoading = FALSE]
       IN Apply(Commit(Cur, st, FALSE))
    /\ nextSid' = nextSid + 1
    /\ newChats' = Remove(newChats, i)
    /\ last' = [op |-> "newChat",
                out |-> IF newChats[i].cleanupFailed THEN "createdAfterFailedCleanup"
                        ELSE "created"]
    /\ UNCHANGED <<cfg, sends, resets, now, discarded>>

NewChatCreateFailed(i, thrown) ==
    /\ i \in DOMAIN newChats
    /\ newChats[i].phase = "create"
    /\ Apply(Commit(Cur, [Cur EXCEPT !.error = ErrorMessage(thrown, ErrNewChatFailed),
                                     !.isLoading = FALSE], FALSE))
    /\ newChats' = Remove(newChats, i)
    /\ last' = [op |-> "newChat", out |-> "createFailed"]
    /\ UNCHANGED <<cfg, sends, resets, nextSid, now, discarded>>

\* the createTestSession of the mount effect settles
InitCreated ==
    /\ initCreate
    /\ nextSid <= MaxSessions
    /\ LET st == [Cur EXCEPT
                    !.sessionId = nextSid,
                    !.localStorage = setItem(@, SessionKey(cfg.locationId), nextSid),
                    !.isInitializing = FALSE,
                    !.initCreate = FALSE]
       IN Apply(Commit(Cur, st, FALSE))
    /\ nextSid' = nextSid + 1
    /\ last' = [op |-> "init", out |-> "created"]
    /\ UNCHANGED <<cfg, sends, resets, newChats, now, discarded>>

InitCreateFailed(thrown) ==
    /\ initCreate
    /\ Apply(Commit(Cur, [Cur EXCEPT !.error = InitErrorMessage(thrown),
                                     !.isInitializing = FALSE,
                                     !.initCreate = FALSE], FALSE))
    /\ last' = [op |-> "init", out |-> "createFailed"]
    /\ UNCHANGED <<cfg, sends, resets, newChats, nextSid, now, discarded>>

\* Date.now() advances
Tick ==
    /\ now < MaxClock
    /\ now' = now + 1
    /\ UNCHANGED <<cfg, messages, isLoading, error, lastDebug, sessionId,
                   isInitializing, hasRestoredMessages, localStorage,
                   sends, resets, newChats, initCreate, nextSid, last, discarded>>

\* the page is reloaded: the hook is mounted again over the same storage and
\* the continuations of the requests in flight are gone
Reload ==
    /\ Apply(Commit(Mounted(localStorage), Mounted(localStorage), TRUE))
    /\ sends' = <<>>
    /\ resets' = <<>>
    /\ newChats' = <<>>
    /\ discarded' = {}
    /\ last' = [op |-> "mount", out |-> "reload"]
    /\ UNCHANGED <<cfg, nextSid, now>>

\* a call made by the user of the hook, counted against MaxCalls
Call(A) == calls < MaxCalls /\ A /\ calls' = calls + 1 /\ UNCHANGED <<page, handshake>>

\* a step the environment takes: a request settles, the clock advances
Step(A) == A /\ UNCHANGED <<calls, page, handshake>>

Next ==
    \/ \E content \in Texts : Call(sendUserMessage(content))
    \/ \E i \in 1..MaxInflight, resp \in Responses : Step(SendSucceeded(i, resp))
    \/ \E i \in 1..MaxInflight, thrown \in Thrown : Step(SendFailed(i, thrown))
    \/ Call(clearMessages)
    \/ Call(resetSession)
    \/ \E i \in 1..MaxResets : Step(ResetSucceeded(i))
    \/ \E i \in 1..MaxResets, thrown \in Thrown : Step(ResetFailed(i, thrown))
    \/ Call(startNewChat)
    \/ \E i \in 1..MaxNewChats, ok \in BOOLEAN : Step(NewChatCleanupSettled(i, ok))
    \/ \E i \in 1..MaxNewChats : Step(NewChatCreated(i))
    \/ \E i \in 1..MaxNewChats, thrown \in Thrown : Step(NewChatCreateFailed(i, thrown))
    \/ Step(InitCreated)
    \/ \E thrown \in Thrown : Step(InitCreateFailed(thrown))
    \/ Step(Tick)
    \/ Call(Reload)

Spec == Init /\ [][Next]_vars

\* every request issued to the transport settles: its promise resolves or
\* rejects, and the continuation awaiting it runs
SendSettles ==
    \/ \E i \in 1..MaxInflight, resp \in Responses : Step(SendSucceeded(i, resp))
    \/ \E i \in 1..MaxInflight, thrown \in Thrown : Step(SendFailed(i, thrown))

ResetSettles ==
    \/ \E i \in 1..MaxResets : Step(ResetSucceeded(i))
    \/ \E i \in 1..MaxResets, thrown \in Thrown : Step(ResetFailed(i, thrown))

NewChatSettles ==
    \/ \E i \in 1..MaxNewChats, ok \in BOOLEAN : Step(NewChatCleanupSettled(i, ok))
    \/ \E i \in 1..MaxNewChats : Step(NewChatCreated(i))
    \/ \E i \in 1..MaxNewChats, thrown \in Thrown : Step(NewChatCreateFailed(i, thrown))

InitCreateSettles ==
    \/ Step(InitCreated)
    \/ \E thrown \in Thrown : Step(InitCreateFailed(thrown))

FairSpec ==
    /\ Spec
    /\ WF_vars(SendSettles)
    /\ WF_vars(ResetSettles)
    /\ WF_vars(NewChatSettles)
    /\ WF_vars(InitCreateSettles)

\* ------------------------------------------- the persistence helpers alone
\* serializeMessages and deserializeMessages applied to message lists and to
\* texts the hook did not write, through one storage key.
MaxListLen == 2

StoredSid == 1

SampleMessages ==
    { UserMessage(<<"hi">>, 1),
      LoadingMessage(1),
      [debug |-> "d1", isLoading |-> FALSE, content |-> <<"ok">>] @@ LoadingMessage(2),
      UserMessage(<<" ", "hi">>, 2) }

SampleLists ==
    UNION { [1..n -> SampleMessages] : n \in 0..MaxListLen }

\* texts that serializeMessages never returns
ForeignTexts ==
    { Unparseable, NotAnArray,
      JSONstringify(<<JsonNull>>),
      JSONstringify(<<JsonNumber>>),
      JSONstringify(<<[id |-> "user-1"]>>) }

UNCHANGED_ExceptStore ==
    UNCHANGED <<cfg, isLoading, error, lastDebug, sessionId, isInitializing,
                hasRestoredMessages, sends, resets, newChats, initCreate,
                nextSid, now, discarded, calls, page, handshake>>

InitHelpers ==
    /\ cfg = [testMode |-> TRUE, locationId |-> "L1", contactId |-> "",
              initialSessionId |-> NoSid]
    /\ messages \in SampleLists
    /\ localStorage = EmptyStorage
    /\ last = [op |-> "storage", out |-> "none"]
    /\ isLoading = FALSE
    /\ error = Null
    /\ lastDebug = Null
    /\ sessionId = StoredSid
    /\ isInitializing = FALSE
    /\ hasRestoredMessages = TRUE
    /\ initCreate = FALSE
    /\ sends = <<>>
    /\ resets = <<>>
    /\ newChats = <<>>
    /\ nextSid = 1
    /\ now = 1
    /\ discarded = {}
    /\ calls = 0
    /\ page = SettledDemoPage
    /\ handshake = NoHandshake

\* localStorage.setItem(key, serializeMessages(messages)); toISOString throws
\* a RangeError on an Invalid Date, and then nothing is written
WriteSerialized ==
    /\ \A i \in 1..Len(messages) : messages[i].timestamp # InvalidDate
    /\ localStorage' = setItem(localStorage, ChatKey(StoredSid), serializeMessages(messages))
    /\ last' = [op |-> "storage", out |-> "serialized"]
    /\ UNCHANGED messages
    /\ UNCHANGED_ExceptStore

\* some other writer leaves a text under the key
WriteForeign(text) ==
    /\ localStorage' = setItem(localStorage, ChatKey(StoredSid), text)
    /\ last' = [op |-> "storage", out |-> "foreign"]
    /\ UNCHANGED messages
    /\ UNCHANGED_ExceptStore

\* messages = deserializeMessages(localStorage.getItem(key))
ReadDeserialized ==
    /\ HasItem(localStorage, ChatKey(StoredSid))
    /\ messages' = deserializeMessages(localStorage[ChatKey(StoredSid)])
    /\ last' = [op |-> "storage", out |-> "deserialized"]
    /\ UNCHANGED localStorage
    /\ UNCHANGED_ExceptStore

NextHelpers ==
    \/ WriteSerialized
    \/ \E text \in ForeignTexts : WriteForeign(text)
    \/ ReadDeserialized

SpecHelpers == InitHelpers /\ [][NextHelpers]_vars

\* ------------------------------------- the chat page's initialization alone
\* ChatPageContent from its mount to the end of initializeContext; the hook
\* is not mounted before the page has a context
InitPage ==
    /\ page \in { MountedPage(params, inIframe) :
                     params \in SearchParams, inIframe \in BOOLEAN }
    /\ cfg = [testMode |-> TRUE, locationId |-> "L1", contactId |-> "",
              initialSessionId |-> NoSid]
    /\ messages = <<>>
    /\ localStorage = EmptyStorage
    /\ last = [op |-> "mount", out |-> "none"]
    /\ isLoading = FALSE
    /\ error = Null
    /\ lastDebug = Null
    /\ sessionId = NoSid
    /\ isInitializing = FALSE
    /\ hasRestoredMessages = FALSE
    /\ initCreate = FALSE
    /\ sends = <<>>
    /\ resets = <<>>
    /\ newChats = <<>>
    /\ nextSid = 1
    /\ now = 1
    /\ discarded = {}
    /\ calls = 0
    /\ handshake = NoHandshake

NextPage ==
    \/ initializeContext
    \/ \E res \in ResolveOutcomes : ResolveSettled(res)
    \/ \E out \in SSOOutcomes : SSOSettled(out)
    \/ \E res \in ResolveOutcomes : SSOResolveSettled(res)

\* the effect runs after the mount and every awaited promise settles
SpecPage == InitPage /\ [][NextPage]_vars /\ WF_vars(NextPage)

\* ------------------------------------------------ the SSO handshake alone
InitSSO ==
    /\ handshake = NoHandshake
    /\ page = MountedPage([location_id |-> "", contact_id |-> "",
                           ghl_location_id |-> "", ghl_contact_id |-> "",
                           locationId |-> "", contactId |-> ""], TRUE)
    /\ cfg = [testMode |-> TRUE, locationId |-> "L1", contactId |-> "",
              initialSessionId |-> NoSid]
    /\ messages = <<>>
    /\ localStorage = EmptyStorage
    /\ last = [op |-> "mount", out |-> "none"]
    /\ isLoading = FALSE
    /\ error = Null
    /\ lastDebug = Null
    /\ sessionId = NoSid
    /\ isInitializing = FALSE
    /\ hasRestoredMessages = FALSE
    /\ initCreate = FALSE
    /\ sends = <<>>
    /\ resets = <<>>
    /\ newChats = <<>>
    /\ nextSid = 1
    /\ now = 1
    /\ discarded = {}
    /\ calls = 0

NextSSO ==
    \/ requestGHLUserData
    \/ \E event \in MessageEvents : MessageArrives(event)
    \/ SecondPasses
    \/ TimerFires

\* the call is made, time passes and a due timer fires
SpecSSO ==
    /\ InitSSO
    /\ [][NextSSO]_vars
    /\ WF_vars(requestGHLUserData)
    /\ WF_vars(SecondPasses)
    /\ WF_vars(TimerFires)

TypeOK ==
    /\ cfg \in Configs
    /\ isLoading \in BOOLEAN
    /\ sessionId \in 0..MaxSessions
    /\ Len(messages) <= MaxMsgs
    /\ Len(sends) <= MaxInflight

\* ================================================================ claims
InTestSend(c) == Trim(c) # <<>> /\ cfg.locationId # "" /\ cfg.testMode /\ sessionId # NoSid
InContactSend(c) == Trim(c) # <<>> /\ cfg.locationId # "" /\ ~cfg.testMode /\ cfg.contactId # ""
Accepted(c) == InTestSend(c) \/ InContactSend(c)
Quiescent == sends = <<>> /\ resets = <<>> /\ newChats = <<>> /\ ~initCreate
Changed(k) == messages'[k] # messages[k]

\* C1: while the transport request of an accepted send is unresolved, a
\* further sendUserMessage call issues no request and leaves the message
\* list unchanged.
C1_SingleFlight ==
    [][\A c \in Texts :
         (sends # <<>> /\ Trim(c) # <<>> /\ sendUserMessage(c))
             => (sends' = sends /\ messages' = messages)]_vars

\* C2: an accepted send appends exactly a user message and then a pending
\* assistant placeholder to the end of the list, in the step that issues the
\* request; the step in which the request resolves (success or failure)
\* keeps the length of the list and the id and role at every position, and
\* changes no message with another id than the placeholder's.
C2_OptimisticPairing ==
    [][/\ \A c \in Texts :
             (Accepted(c) /\ sendUserMessage(c)) =>
                /\ Len(messages') = Len(messages) + 2
                /\ SubSeq(messages', 1, Len(messages)) = messages
                /\ messages'[Len(messages) + 1].role = "user"
                /\ messages'[Len(messages) + 1].content = Trim(c)
                /\ messages'[Len(messages) + 2].role = "assistant"
                /\ IsLoadingMsg(messages'[Len(messages) + 2])
                /\ Len(sends') = Len(sends) + 1
       /\ \A i \in 1..MaxInflight :
             ((\E resp \in Responses : SendSucceeded(i, resp))
                 \/ (\E thrown \in Thrown : SendFailed(i, thrown))) =>
                /\ Len(messages') = Len(messages)
                /\ \A k \in 1..Len(messages) :
                      /\ messages'[k].id = messages[k].id
                      /\ messages'[k].role = messages[k].role
                      /\ messages[k].id # sends[i].id => messages'[k] = messages[k]
                      /\ messages[k].id = sends[i].id => ~IsLoadingMsg(messages'[k])]_vars

C2_Witness ==
    /\ last = [op |-> "send", out |-> "succeeded"]
    /\ Len(messages) = 2
    /\ messages[1].role = "user"
    /\ messages[2].role = "assistant"
    /\ ~IsLoadingMsg(messages[2])

\* C3: when a test-mode send succeeds, the placeholder of that send gets the
\* reply text (or the fixed acknowledgement for an empty or null reply), its
\* pending flag false and the debug info; lastDebug becomes the debug info;
\* no other message of the list changes.
C3_SuccessFillsOwnPlaceholder ==
    [][\A i \in 1..MaxInflight, resp \in Responses :
         (SendSucceeded(i, resp) /\ sends[i].test) =>
            /\ lastDebug' = resp.debug
            /\ \A k \in 1..Len(messages) :
                  messages[k].id = sends[i].id =>
                     /\ messages'[k].content =
                           (IF resp.replyIsNull \/ resp.reply = <<>>
                            THEN <<"I understand. Let me help you with that.">>
                            ELSE resp.reply)
                     /\ messages'[k].isLoading = FALSE
                     /\ messages'[k].debug = resp.debug
            /\ Cardinality({k \in 1..Len(messages) : Changed(k)}) <= 1]_vars

\* C4: when a send fails, the placeholder of that send gets the fixed apology
\* and its pending flag false, error becomes the thrown Error's message (or
\* "Something went wrong" for a thrown non-Error), lastDebug is unchanged,
\* and the handler ends normally.
C4_FailureApologises ==
    [][\A i \in 1..MaxInflight, thrown \in Thrown :
         SendFailed(i, thrown) =>
            /\ error' = (IF thrown.isError THEN thrown.message
                         ELSE "Something went wrong")
            /\ lastDebug' = lastDebug
            /\ isLoading' = FALSE
            /\ Len(sends') = Len(sends) - 1
            /\ \A k \in 1..Len(messages) :
                  messages[k].id = sends[i].id =>
                     /\ messages'[k].content =
                           <<"Sorry, I encountered an error. Please try again.">>
                     /\ messages'[k].isLoading = FALSE]_vars

C4_Witness ==
    /\ last = [op |-> "send", out |-> "failed"]
    /\ error = "Something went wrong"
    /\ Len(messages) = 2
    /\ messages[2].content = <<"Sorry, I encountered an error. Please try again.">>
    /\ ~IsLoadingMsg(messages[2])

\* C5: sendUserMessage with a text that is empty or only whitespace, or
\* without a locationId, changes nothing: messages, error, isLoading,
\* lastDebug, sessionId and localStorage stay as they are and no request is
\* issued.
C5_BlankSendIsNoop ==
    [][\A c \in Texts :
         ((c \in {<<>>, <<" ">>} \/ cfg.locationId = "") /\ sendUserMessage(c)) =>
            UNCHANGED <<messages, error, isLoading, lastDebug, sessionId,
                        localStorage, sends, resets, newChats, initCreate>>]_vars

C5_Witness ==
    /\ last = [op |-> "send", out |-> "noop"]
    /\ cfg.locationId # ""
    /\ Len(messages) > 0
    /\ error = "null"

\* C6 (as stated): a non-empty send in test mode with no session id sets
\* error to "Test session not initialized", and a non-empty send outside test
\* mode without a contact id sets an error; messages, isLoading and
\* localStorage are unchanged and no request is issued.
C6_ValidationRejects ==
    [][\A c \in Texts :
         (Trim(c) # <<>> /\ sendUserMessage(c)) =>
            /\ (cfg.testMode /\ sessionId = NoSid) =>
                  /\ error' = "Test session not initialized"
                  /\ UNCHANGED <<messages, isLoading, localStorage, sends>>
            /\ (~cfg.testMode /\ cfg.contactId = "") =>
                  /\ error' # "null"
                  /\ UNCHANGED <<messages, isLoading, localStorage, sends>>]_vars

\* C6 (amended): the same, for a hook that has a locationId.
C6_ValidationRejectsWithLocation ==
    [][\A c \in Texts :
         (Trim(c) # <<>> /\ cfg.locationId # "" /\ sendUserMessage(c)) =>
            /\ (cfg.testMode /\ sessionId = NoSid) =>
                  /\ error' = "Test session not initialized"
                  /\ UNCHANGED <<messages, isLoading, localStorage, sends>>
            /\ (~cfg.testMode /\ cfg.contactId = "") =>
                  /\ error' # "null"
                  /\ UNCHANGED <<messages, isLoading, localStorage, sends>>]_vars

C6_Witness ==
    /\ last = [op |-> "send", out |-> "rejected"]
    /\ cfg.testMode
    /\ sessionId = NoSid
    /\ error = "Test session not initialized"
    /\ sends = <<>>

\* C7: when the transport reset of resetSession succeeds, messages is empty,
\* lastDebug and error are null, the message blob of the session reset is
\* gone from localStorage, and sessionId and the session id stored under the
\* location key are unchanged; an accepted test-mode send is sent under the
\* sessionId the hook holds.
C7_ResetKeepsIdentity ==
    [][/\ \A i \in 1..MaxResets :
             ResetSucceeded(i) =>
                /\ messages' = <<>>
                /\ lastDebug' = "null"
                /\ error' = "null"
                /\ ~HasItem(localStorage', ChatKey(resets[i]))
                /\ sessionId' = sessionId
                /\ HasItem(localStorage', SessionKey(cfg.locationId))
                      = HasItem(localStorage, SessionKey(cfg.locationId))
                /\ HasItem(localStorage, SessionKey(cfg.locationId)) =>
                      localStorage'[SessionKey(cfg.locationId)]
                         = localStorage[SessionKey(cfg.locationId)]
       /\ \A c \in Texts :
             (InTestSend(c) /\ sendUserMessage(c)) =>
                sends'[Len(sends')].sessionId = sessionId]_vars

C7_Witness ==
    /\ last = [op |-> "reset", out |-> "succeeded"]
    /\ sessionId # NoSid
    /\ messages = <<>>
    /\ HasItem(localStorage, SessionKey(cfg.locationId))
    /\ localStorage[SessionKey(cfg.locationId)] = sessionId
    /\ ~HasItem(localStorage, ChatKey(sessionId))

\* C8: once startNewChat, invoked while session S was held, and every
\* request in flight have finished, sessionId differs from S and
\* localStorage holds no message blob under S's key.
C8_NewChatRotatesIdentity ==
    Quiescent =>
        \A s \in discarded :
            sessionId # s /\ ~HasItem(localStorage, ChatKey(s))

\* C9: startNewChat clears the error; a failed cleanup of the old session
\* leaves the error as it is and the create-session request is issued; when
\* that request succeeds after a failed cleanup, sessionId is the new id, the
\* new id is stored under the location key, and the error is left as it is.
C9_CleanupFailureIgnored ==
    [][/\ (cfg.testMode /\ cfg.locationId # "" /\ startNewChat) => error' = "null"
       /\ \A i \in 1..MaxNewChats :
             NewChatCleanupSettled(i, FALSE) =>
                /\ error' = error
                /\ newChats'[i].phase = "create"
       /\ \A i \in 1..MaxNewChats :
             (NewChatCreated(i) /\ newChats[i].cleanupFailed) =>
                /\ sessionId' = nextSid
                /\ sessionId' # newChats[i].sessionId
                /\ localStorage'[SessionKey(cfg.locationId)] = nextSid
                /\ error' = error
                /\ isLoading' = FALSE]_vars

C9_Witness ==
    /\ last = [op |-> "newChat", out |-> "createdAfterFailedCleanup"]
    /\ error = "null"
    /\ sessionId # NoSid
    /\ localStorage[SessionKey(cfg.locationId)] = sessionId

\* C10: no message blob in localStorage contains a pending message.
C10_NoPendingPersisted ==
    \A k \in DOMAIN localStorage :
        k[1] = STORAGE_KEY_PREFIX =>
            \A j \in 1..Len(localStorage[k].items) : ~IsLoadingMsg(localStorage[k].items[j])

\* C11: whenever a session id is held, no message is pending and no
\* operation is in flight, the message blob stored for that session
\* deserializes to the message list (no blob standing for the empty list).
C11_StorageAgreesWithMemory ==
    (sessionId # NoSid /\ Quiescent /\ \A k \in 1..Len(messages) : ~IsLoadingMsg(messages[k]))
        => (IF HasItem(localStorage, ChatKey(sessionId))
            THEN deserializeMessages(localStorage[ChatKey(sessionId)]) = messages
            ELSE messages = <<>>)

\* C12: deserializing what serializeMessages returned for a list gives the
\* list back (same length, order, ids, roles, contents, pending flags, debug
\* and millisecond timestamps), and deserializing any text that is not
\* serialized output gives the empty list.
C12_RoundTripAndInvalidText ==
    /\ (\A i \in 1..Len(messages) : messages[i].timestamp # InvalidDate)
           => deserializeMessages(serializeMessages(messages)) = messages
    /\ (last.out = "foreign")
           => deserializeMessages(localStorage[ChatKey(StoredSid)]) = <<>>

\* C13: a mount in test mode with a location and no session id held adopts
\* the session id stored under the location key, if there is one, restores
\* the message list stored for that session and requests no session creation;
\* if there is none it requests a session creation, and when that succeeds the
\* hook holds the returned id and the id is stored under the location key.
C13_RestoreOrCreate ==
    [][/\ (Reload /\ cfg.testMode /\ cfg.locationId # "") =>
             IF HasItem(localStorage, SessionKey(cfg.locationId))
             THEN /\ sessionId' = localStorage[SessionKey(cfg.locationId)]
                  /\ messages' =
                        IF HasItem(localStorage, ChatKey(sessionId'))
                        THEN deserializeMessages(localStorage[ChatKey(sessionId')])
                        ELSE <<>>
                  /\ ~initCreate'
                  /\ ~isInitializing'
             ELSE /\ initCreate'
                  /\ sessionId' = NoSid
                  /\ messages' = <<>>
       /\ InitCreated =>
             /\ sessionId' = nextSid
             /\ HasItem(localStorage', SessionKey(cfg.locationId))
             /\ localStorage'[SessionKey(cfg.locationId)] = nextSid
             /\ ~initCreate']_vars

C13_Witness ==
    /\ last = [op |-> "mount", out |-> "reload"]
    /\ cfg.testMode
    /\ sessionId # NoSid
    /\ localStorage[SessionKey(cfg.locationId)] = sessionId
    /\ Len(messages) = 2
    /\ ~initCreate

\* C14: when the session creation requested by the mount fails, error
\* becomes a non-null string that carries the message of the failure,
\* sessionId stays null and nothing is stored under the location key; while
\* sessionId is null in test mode no sendUserMessage changes the message list
\* or issues a request.
C14_InitCreateFailure ==
    [][/\ \A thrown \in Thrown :
             InitCreateFailed(thrown) =>
                /\ error' # Null
                /\ (thrown.isError /\ thrown.message = "timeout") =>
                      error' = "Failed to create test session: timeout"
                /\ sessionId = NoSid
                /\ sessionId' = NoSid
                /\ localStorage' = localStorage
                /\ ~HasItem(localStorage', SessionKey(cfg.locationId))
       /\ \A c \in Texts :
             (sendUserMessage(c) /\ cfg.testMode /\ sessionId = NoSid) =>
                /\ messages' = messages
                /\ sends' = sends
                /\ localStorage' = localStorage]_vars

\* C15: provided every request issued to the transport settles, a pending
\* assistant placeholder in the message list (also one restored from storage
\* by a reload) does not stay pending for ever.
C15_PendingResolves ==
    \A t \in 1..MaxClock :
        (\E k \in 1..Len(messages) :
            messages[k].id = <<"assistant", t>> /\ IsLoadingMsg(messages[k]))
        ~> (\A k \in 1..Len(messages) :
               messages[k].id = <<"assistant", t>> => ~IsLoadingMsg(messages[k]))

\* C16: clearMessages, in whatever state it is called, empties the message
\* list and sets error and lastDebug to null; it issues no request, writes
\* and removes nothing in localStorage, and leaves sessionId and isLoading
\* as they were.
C16_ClearIsLocalOnly ==
    [][clearMessages =>
          /\ messages' = <<>>
          /\ error' = Null
          /\ lastDebug' = Null
          /\ sends' = sends
          /\ resets' = resets
          /\ newChats' = newChats
          /\ initCreate' = initCreate
          /\ localStorage' = localStorage
          /\ sessionId' = sessionId
          /\ isLoading' = isLoading]_vars

C16_Witness ==
    /\ last = [op |-> "clear", out |-> "done"]
    /\ messages = <<>>
    /\ sessionId # NoSid
    /\ HasItem(localStorage, ChatKey(sessionId))
    /\ Len(localStorage[ChatKey(sessionId)].items) = 2
    /\ isLoading

\* C17: a page opened without any of the parameters location_id, contact_id,
\* ghl_location_id, ghl_contact_id, locationId, contactId ends its context
\* initialization with isLoading false, the context of the demo location and
\* no error, whatever an SSO attempt on the way gave.
NoParams ==
    \A name \in DOMAIN page.params : page.params[name] = ""

InDemoMode(pg) ==
    /\ pg.pc = "done"
    /\ ~pg.isLoading
    /\ pg.context = DemoContext
    /\ pg.error = Null

InSSOError(pg) ==
    /\ pg.pc = "done"
    /\ ~pg.isLoading
    /\ pg.context = NoContext
    /\ pg.error = ErrSSONoLocation

Pending == { k \in 1..Len(messages) : IsLoadingMsg(messages[k]) }

C18_AtMostOnePending ==
    /\ [](Cardinality(Pending) <= 1)
    /\ [][Pending # {} => Len(messages') <= Len(messages)]_vars

\* C19: the message list always has even length and is a sequence of
\* (user, assistant) pairs; only assistant messages are pending, and a
\* pending assistant message comes right after the user message that the
\* same send appended (the one carrying the same clock value).
C19_PairStructure ==
    /\ Len(messages) % 2 = 0
    /\ \A k \in 1..Len(messages) :
          /\ messages[k].role = (IF k % 2 = 1 THEN "user" ELSE "assistant")
          /\ IsLoadingMsg(messages[k]) =>
                /\ messages[k].role = "assistant"
                /\ k > 1
                /\ messages[k - 1].role = "user"
                /\ messages[k - 1].id = <<"user", messages[k].id[2]>>
                /\ messages[k - 1].timestamp = messages[k].timestamp

C19_Witness ==
    /\ last = [op |-> "mount", out |-> "reload"]
    /\ Len(messages) = 4
    /\ ~IsLoadingMsg(messages[2])
    /\ IsLoadingMsg(messages[4])

\* C20: all messages of the list have pairwise distinct ids, and the
\* resolution of a send changes exactly one message.
C20_UniqueIds ==
    /\ [](\A j, k \in 1..Len(messages) : j # k => messages[j].id # messages[k].id)
    /\ [][\A i \in 1..MaxInflight :
            ((\E resp \in Responses : SendSucceeded(i, resp))
                \/ (\E thrown \in Thrown : SendFailed(i, thrown)))
            => Cardinality({k \in 1..Len(messages) : Changed(k)}) <= 1]_vars

\* C21: once error is non-null it stays non-null until an operation completes
\* successfully (a send, a reset or a new chat that succeeds) or
\* clearMessages is called; an operation that is only started, or that
\* fails, never leaves error null.  (A reload mounts a new hook.)
ErrorCleared == error # Null /\ error' = Null

C21_ErrorsSticky ==
    [][ErrorCleared =>
          \/ last' = [op |-> "send", out |-> "succeeded"]
          \/ last' = [op |-> "reset", out |-> "succeeded"]
          \/ last' = [op |-> "newChat", out |-> "created"]
          \/ last' = [op |-> "newChat", out |-> "createdAfterFailedCleanup"]
          \/ last' = [op |-> "clear", out |-> "done"]
          \/ last' = [op |-> "mount", out |-> "reload"]]_vars

\* C21 (amended): once error is non-null it stays non-null until a send is
\* accepted or startNewChat is started (both clear it when they start), a
\* reset succeeds, or clearMessages is called; a rejected or ignored call, a
\* failing operation and a succeeding send or session creation never turn a
\* non-null error into null.  (A reload mounts a new hook.)
C21_ErrorsStickyUntilNextAttempt ==
    [][ErrorCleared =>
          \/ last' = [op |-> "send", out |-> "accepted"]
          \/ last' = [op |-> "newChat", out |-> "started"]
          \/ last' = [op |-> "reset", out |-> "succeeded"]
          \/ last' = [op |-> "clear", out |-> "done"]
          \/ last' = [op |-> "mount", out |-> "reload"]]_vars

C21_Witness ==
    /\ last = [op |-> "send", out |-> "succeeded"]
    /\ error = "timeout"
    /\ sends = <<>>

\* C22: for one mounted hook the restore-or-create effect does its work at
\* most once: after the mount no step issues a further session creation for
\* the effect or adopts a session id from storage (a session id only ever
\* comes from a creation that succeeded), whether or not a session id is
\* held; a failed creation is not requested again.
C22_InitRunsOnce ==
    [][/\ last'.op # "mount" =>
             /\ initCreate' => initCreate
             /\ hasRestoredMessages' = hasRestoredMessages
             /\ (sessionId' # sessionId /\ sessionId' # NoSid) => sessionId' = nextSid
       /\ \A thrown \in Thrown :
             InitCreateFailed(thrown) => (~initCreate' /\ ~isInitializing')]_vars

C22_Witness ==
    /\ last = [op |-> "init", out |-> "createFailed"]
    /\ hasRestoredMessages
    /\ sessionId = NoSid
    /\ ~initCreate
    /\ ~isInitializing

\* C23: in test mode, whenever the hook holds a session id, the session id
\* stored under the location key is that id.
C23_SessionIdAgreement ==
    (cfg.testMode /\ sessionId # NoSid) =>
        /\ HasItem(localStorage, SessionKey(cfg.locationId))
        /\ localStorage[SessionKey(cfg.locationId)] = sessionId

C23_Witness ==
    /\ last = [op |-> "newChat", out |-> "created"]
    /\ sessionId = 2
    /\ localStorage[SessionKey(cfg.locationId)] = 2

\* C24: once startNewChat has removed the stored messages of session S and
\* has cleared S from the hook's state, no later mount for the same location
\* adopts S as its session id, whether the session creation of that
\* startNewChat succeeded, failed or was still unsettled.
ClearedFromMemory(S) ==
    /\ S \in discarded
    /\ \A i \in 1..Len(newChats) :
          ~(newChats[i].phase = "reset" /\ newChats[i].sessionId = S)

C24_DiscardedNeverResumed ==
    [][Reload => \A S \in 1..MaxSessions : ClearedFromMemory(S) => sessionId' # S]_vars

\* C25: lastDebug is non-null only while the message list holds a
\* non-pending assistant message that carries that same debug info, also
\* when resetSession, startNewChat or clearMessages ran while a send was in
\* flight and the send resolved afterwards.
C25_DebugMatchesList ==
    lastDebug # Null =>
        \E k \in 1..Len(messages) :
            /\ messages[k].role = "assistant"
            /\ ~IsLoadingMsg(messages[k])
            /\ "debug" \in DOMAIN messages[k]
            /\ messages[k].debug = lastDebug

\* C26: the message list a mount restores from storage holds no pending
\* message, at whatever moment the page was reloaded; so every pending
\* message of the list has its transport request in flight.
C26_RestoreYieldsNoPending ==
    /\ [][Reload => \A k \in 1..Len(messages') : ~IsLoadingMsg(messages'[k])]_vars
    /\ [](\A k \in 1..Len(messages) :
             IsLoadingMsg(messages[k]) =>
                \E i \in 1..Len(sends) : sends[i].id = messages[k].id)

\* C27: isLoading is true whenever a send request or a startNewChat is in
\* flight, and false whenever none is.
C27_LoadingTracksInFlight ==
    isLoading <=> (sends # <<>> \/ newChats # <<>>)

\* C28: when the transport reset of resetSession fails, error becomes the
\* message of the failure and messages, lastDebug, sessionId and
\* localStorage stay exactly as they were; outside test mode or without a
\* session id resetSession changes nothing and issues no request.
C28_ResetAllOrNothing ==
    [][/\ \A i \in 1..MaxResets, thrown \in Thrown :
             ResetFailed(i, thrown) =>
                /\ error' = (IF thrown.isError THEN thrown.message ELSE ErrResetFailed)
                /\ messages' = messages
                /\ lastDebug' = lastDebug
                /\ sessionId' = sessionId
                /\ localStorage' = localStorage
       /\ (resetSession /\ (~cfg.testMode \/ sessionId = NoSid)) =>
             /\ messages' = messages
             /\ error' = error
             /\ lastDebug' = lastDebug
             /\ sessionId' = sessionId
             /\ isLoading' = isLoading
             /\ localStorage' = localStorage
             /\ sends' = sends
             /\ resets' = resets
             /\ newChats' = newChats
             /\ initCreate' = initCreate]_vars

C28_Witness ==
    /\ last = [op |-> "reset", out |-> "failed"]
    /\ error = "timeout"
    /\ sessionId # NoSid
    /\ Len(messages) = 2
    /\ HasItem(localStorage, ChatKey(sessionId))

\* C29: for every accepted send the message string handed to the transport
\* is the content of the user message that the send appended to the list,
\* also for input with leading or trailing whitespace.
C29_SentTextIsShownText ==
    [][\A c \in Texts :
         (Accepted(c) /\ sendUserMessage(c)) =>
             sends'[Len(sends')].message = messages'[Len(messages') - 1].content]_vars

\* C30: the promise of requestGHLUserData settles exactly once: it resolves
\* with the payload of the first REQUEST_USER_DATA_RESPONSE message received
\* before the 5-second timer fires, or rejects with "GHL user data request
\* timed out" when the timer fires first; it does not stay pending; once it
\* has settled the listener is removed and the timer cancelled, and later
\* messages and the passing of time change nothing about it.
IsResponse(event) == event.message = "REQUEST_USER_DATA_RESPONSE"

C30_HandshakeSettlesOnce ==
    /\ [](/\ handshake.promise = "resolved" =>
                /\ ~handshake.timerFired
                /\ \E k \in 1..Len(handshake.events) :
                      /\ IsResponse(handshake.events[k])
                      /\ \A j \in 1..(k - 1) : ~IsResponse(handshake.events[j])
                      /\ handshake.value = handshake.events[k].payload
          /\ handshake.promise = "rejected" =>
                /\ handshake.timerFired
                /\ handshake.value = ErrSSOTimeout
                /\ \A j \in 1..handshake.eventsAtTimer :
                      ~IsResponse(handshake.events[j])
          /\ handshake.promise \in {"resolved", "rejected"} =>
                (~handshake.listener /\ ~handshake.timer))
    /\ [][handshake.promise \in {"resolved", "rejected"} =>
             /\ handshake'.promise = handshake.promise
             /\ handshake'.value = handshake.value
             /\ ~handshake'.listener
             /\ ~handshake'.timer]_vars
    /\ <>(handshake.promise \in {"resolved", "rejected"})

C30_Witness ==
    /\ handshake.promise = "resolved"
    /\ handshake.value = "p2"
    /\ Len(handshake.events) = 3
    /\ handshake.events[1].message = "other"
    /\ handshake.events[3].payload = "p1"
    /\ handshake.elapsed = MaxElapsed

====
